---- MODULE Spec2Model ----
(***************************************************************************)
(* Model of the CIDR containment expressions of polars-network             *)
(* (src/src/expressions.rs): cidr_contains and cidr_subnet_of over text    *)
(* columns, the argument resolution, the row loop and the bit-mask         *)
(* containment test for IPv4 (u32) and IPv6 (u128).                        *)
(*                                                                         *)
(* An unsigned integer of width w is represented exactly by the set of     *)
(* the positions (0 = least significant) of its bits that are 1, so that   *)
(* 32-bit and 128-bit values keep their full width: AND is intersection,   *)
(* a left shift moves positions up and drops those that leave the width.   *)
(***************************************************************************)
EXTENDS Integers, Sequences, FiniteSets, TLC

VARIABLES pc, op, inputs, needle, builder, idx, ret,
          va, vb, vmode, ppc, rc, rs

vars == <<pc, op, inputs, needle, builder, idx, ret, va, vb, vmode, ppc, rc, rs>>
callVars == <<pc, op, inputs, needle, builder, idx, ret>>
pairVars == <<va, vb, vmode, ppc, rc, rs>>

(***************************************************************************)
(* Bounds of the model.                                                    *)
(***************************************************************************)
\* longest column of a stepwise call
MaxRows == 2
\* largest number of series handed to an expression
MaxInputs == 3
\* how far beyond the address width a prefix typed in a text may go
MaxPrefixExcess == 1
\* distance between the IPv6 prefix lengths sampled strictly inside 2..126
V6PrefixStride == 5

(***************************************************************************)
(* Fixed-width unsigned integers as sets of bit positions.                 *)
(***************************************************************************)
IPV4_BITS == 32
IPV6_BITS == 128

UMax(w) == 0 .. (w - 1)
BitAnd(x, y) == x \cap y
BitNot(x, w) == UMax(w) \ x
\* x >> k on a value of width w (k < w)
Shr(x, k, w) == {i - k : i \in {j \in x : j >= k}}
\* x << k on a value of width w: bits shifted out are lost.  A shift amount
\* that reaches the width is taken modulo the width (the wrapping behaviour
\* of a release build; a debug build panics, see ShiftOverflows).
Shl(x, k, w) == {i + (k % w) : i \in {j \in x : j + (k % w) < w}}
ShiftOverflows(k, w) == k >= w

\* the bits of an unsigned number n that has at most w bits
BitsOf(n, w) == {i \in 0 .. (w - 1) : (n \div (2 ^ i)) % 2 = 1}
Ipv4Addr(a, b, c, d) ==
    {i + 24 : i \in BitsOf(a, 8)} \cup {i + 16 : i \in BitsOf(b, 8)}
        \cup {i + 8 : i \in BitsOf(c, 8)} \cup BitsOf(d, 8)
Ipv6Addr(segs) ==
    UNION {{i + 16 * (8 - k) : i \in BitsOf(segs[k], 16)} : k \in 1 .. 8}

(***************************************************************************)
(* Texts of a column.  A value is null, a text that is no address at all,  *)
(* a bare address, or address/prefix with the prefix as typed (it may      *)
(* exceed the width of the family, and the address may have host bits).    *)
(***************************************************************************)
NullText == [kind |-> "null", fam |-> "-", addr |-> {}, prefix |-> 0]
JunkText == [kind |-> "junk", fam |-> "-", addr |-> {}, prefix |-> 0]
Bare(f, a) == [kind |-> "bare", fam |-> f, addr |-> a, prefix |-> 0]
Cidr(f, a, p) == [kind |-> "cidr", fam |-> f, addr |-> a, prefix |-> p]

Width(f) == IF f = "V4" THEN IPV4_BITS ELSE IPV6_BITS

(***************************************************************************)
(* ipnetwork: IpNetwork values, parsing and the network address.           *)
(***************************************************************************)
\* Option<IpNetwork>: None, or Some network holding the address AS TYPED
NoneNet == [fam |-> "None", addr |-> {}, prefix |-> 0]
SomeNet(f, a, p) == [fam |-> f, addr |-> a, prefix |-> p]
IsSome(n) == n.fam # "None"

\* text.parse::<IpNetwork>().ok(): a bare address gets the full-width prefix,
\* a prefix beyond the width is an error, the typed address is kept as is
ParseIpNetwork(t) ==
    CASE t.kind = "bare" -> SomeNet(t.fam, t.addr, Width(t.fam))
      [] t.kind = "cidr" -> IF t.prefix > Width(t.fam)
                            THEN NoneNet
                            ELSE SomeNet(t.fam, t.addr, t.prefix)
      [] OTHER -> NoneNet

\* Ipv4Network::mask / Ipv6Network::mask: prefix leading ones
NetMask(n) == BitNot(Shr(UMax(Width(n.fam)), n.prefix, Width(n.fam)), Width(n.fam))
\* Ipv4Network::network / Ipv6Network::network: the typed address masked
Network(n) == BitAnd(n.addr, NetMask(n))

(***************************************************************************)
(* expressions.rs: the containment test.                                   *)
(***************************************************************************)
\* ipv4_prefix_mask without the branch for prefix 0
ipv4_prefix_mask_nozero(prefix) ==
    Shl(UMax(IPV4_BITS), IPV4_BITS - prefix, IPV4_BITS)

ipv4_prefix_mask(prefix) ==
    IF prefix = 0 THEN {} ELSE Shl(UMax(IPV4_BITS), IPV4_BITS - prefix, IPV4_BITS)

\* ipv6_prefix_mask shifting by one bit too few
ipv6_prefix_mask_short(prefix) ==
    IF prefix = 0 THEN {} ELSE Shl(UMax(IPV6_BITS), IPV6_BITS - prefix - 1, IPV6_BITS)

ipv6_prefix_mask(prefix) ==
    IF prefix = 0 THEN {} ELSE Shl(UMax(IPV6_BITS), IPV6_BITS - prefix, IPV6_BITS)

\* contains_ipv4 comparing the supernet's address as typed (ip()) instead of
\* its network address
contains_ipv4_ip(supernet, subnet) ==
    IF supernet.prefix > subnet.prefix
    THEN FALSE
    ELSE supernet.addr = BitAnd(Network(subnet), ipv4_prefix_mask(supernet.prefix))

contains_ipv4(supernet, subnet) ==
    IF supernet.prefix > subnet.prefix
    THEN FALSE
    ELSE Network(supernet) = BitAnd(Network(subnet), ipv4_prefix_mask(supernet.prefix))

\* contains_ipv6 rejecting equal prefix lengths too
contains_ipv6_ge(supernet, subnet) ==
    IF supernet.prefix >= subnet.prefix
    THEN FALSE
    ELSE Network(supernet) = BitAnd(Network(subnet), ipv6_prefix_mask(supernet.prefix))

contains_ipv6(supernet, subnet) ==
    IF supernet.prefix > subnet.prefix
    THEN FALSE
    ELSE Network(supernet) = BitAnd(Network(subnet), ipv6_prefix_mask(supernet.prefix))

network_contains(supernet, subnet) ==
    CASE supernet.fam = "V4" /\ subnet.fam = "V4" -> contains_ipv4(supernet, subnet)
      [] supernet.fam = "V6" /\ subnet.fam = "V6" -> contains_ipv6(supernet, subnet)
      [] OTHER -> FALSE

\* the shift amounts network_contains executes: the mask is built only for
\* operands of one family that pass the prefix comparison, and it is built by
\* a shift only when the prefix is not 0
MaskShifts(supernet, subnet) ==
    IF supernet.fam = subnet.fam /\ supernet.fam \in {"V4", "V6"}
          /\ supernet.prefix <= subnet.prefix /\ supernet.prefix # 0
    THEN {Width(supernet.fam) - supernet.prefix}
    ELSE {}

(***************************************************************************)
(* expressions.rs: argument resolution and the row loop.                   *)
(***************************************************************************)
\* parse_optional_network falling back to a default network (0.0.0.0/0)
\* for a text that does not parse
parse_optional_network_default(value) ==
    IF value.kind = "null"
    THEN NoneNet
    ELSE IF IsSome(ParseIpNetwork(value)) THEN ParseIpNetwork(value) ELSE SomeNet("V4", {}, 0)

parse_optional_network(value) ==
    IF value.kind = "null" THEN NoneNet ELSE ParseIpNetwork(value)

LiteralArg(n) == [mode |-> "Literal", network |-> n, values |-> <<>>]
SeriesArg(vs) == [mode |-> "Series", network |-> NoneNet, values |-> vs]
NoArg == [mode |-> "None", network |-> NoneNet, values |-> <<>>]

\* value_at reading the entry after idx
value_at_next(arg, i) ==
    IF arg.mode = "Literal"
    THEN arg.network
    ELSE IF i + 2 \in DOMAIN arg.values THEN arg.values[i + 2] ELSE NoneNet

\* NetworkArgument::value_at, idx counted from 0 as in the source
value_at(arg, i) ==
    IF arg.mode = "Literal"
    THEN arg.network
    ELSE IF i + 1 \in DOMAIN arg.values THEN arg.values[i + 1] ELSE NoneNet

\* resolve_network_argument testing the length against expected_len before
\* it tests for a literal
resolve_network_argument_lenfirst(series, expected_len) ==
    IF Len(series) = expected_len
    THEN [err |-> "ok",
          arg |-> SeriesArg([i \in 1 .. Len(series) |->
                                parse_optional_network(series[i])])]
    ELSE IF Len(series) # 1
         THEN [err |-> "length_mismatch", arg |-> NoArg]
         ELSE IF series[1].kind = "null"
              THEN [err |-> "null_literal", arg |-> NoArg]
              ELSE IF ~IsSome(ParseIpNetwork(series[1]))
                   THEN [err |-> "invalid_literal", arg |-> NoArg]
                   ELSE [err |-> "ok", arg |-> LiteralArg(ParseIpNetwork(series[1]))]

\* PolarsResult<NetworkArgument>: err is "ok" or the kind of the ComputeError
resolve_network_argument(series, expected_len) ==
    IF Len(series) = 1
    THEN IF series[1].kind = "null"
         THEN [err |-> "null_literal", arg |-> NoArg]
         ELSE IF ~IsSome(ParseIpNetwork(series[1]))
              THEN [err |-> "invalid_literal", arg |-> NoArg]
              ELSE [err |-> "ok", arg |-> LiteralArg(ParseIpNetwork(series[1]))]
    ELSE IF Len(series) # expected_len
         THEN [err |-> "length_mismatch", arg |-> NoArg]
         ELSE [err |-> "ok",
               arg |-> SeriesArg([i \in 1 .. Len(series) |->
                                     parse_optional_network(series[i])])]

BoolOutcome(b) == IF b THEN "true" ELSE "false"

\* the loop body of cidr_contains with the operands of network_contains swapped
ContainsRow_swapped(value, needle_network) ==
    IF IsSome(parse_optional_network(value)) /\ IsSome(needle_network)
    THEN BoolOutcome(network_contains(needle_network, parse_optional_network(value)))
    ELSE "null"

\* the match of the loop body of cidr_contains (rows 24-29)
ContainsRow(value, needle_network) ==
    IF IsSome(parse_optional_network(value)) /\ IsSome(needle_network)
    THEN BoolOutcome(network_contains(parse_optional_network(value), needle_network))
    ELSE "null"

\* the loop body of cidr_subnet_of with the operands of network_contains swapped
SubnetOfRow_swapped(value, supernet_network) ==
    IF IsSome(parse_optional_network(value)) /\ IsSome(supernet_network)
    THEN BoolOutcome(network_contains(parse_optional_network(value), supernet_network))
    ELSE "null"

\* the match of the loop body of cidr_subnet_of (rows 49-54)
SubnetOfRow(value, supernet_network) ==
    IF IsSome(parse_optional_network(value)) /\ IsSome(supernet_network)
    THEN BoolOutcome(network_contains(supernet_network, parse_optional_network(value)))
    ELSE "null"

RowOutcome(o, value, argnet) ==
    IF o = "contains" THEN ContainsRow(value, argnet) ELSE SubnetOfRow(value, argnet)

\* PolarsResult<Series>
OkSeries(col) == [err |-> "ok", column |-> col]
ErrResult(e) == [err |-> e, column |-> <<>>]
NoResult == [err |-> "none", column |-> <<>>]

\* a whole call of cidr_contains
cidr_contains(ins) ==
    IF Len(ins) # 2
    THEN ErrResult("arity")
    ELSE LET r == resolve_network_argument(ins[2], Len(ins[1]))
         IN IF r.err # "ok"
            THEN ErrResult(r.err)
            ELSE OkSeries([i \in 1 .. Len(ins[1]) |->
                              ContainsRow(ins[1][i], value_at(r.arg, i - 1))])

\* a whole call of cidr_subnet_of
cidr_subnet_of(ins) ==
    IF Len(ins) # 2
    THEN ErrResult("arity")
    ELSE LET r == resolve_network_argument(ins[2], Len(ins[1]))
         IN IF r.err # "ok"
            THEN ErrResult(r.err)
            ELSE OkSeries([i \in 1 .. Len(ins[1]) |->
                              SubnetOfRow(ins[1][i], value_at(r.arg, i - 1))])

(***************************************************************************)
(* Inputs.                                                                 *)
(***************************************************************************)
\* 10.0.0.0, 10.0.0.5 (same /24, host bits set), 10.1.0.0
V4Addrs == {Ipv4Addr(10, 0, 0, 0), Ipv4Addr(10, 0, 0, 5), Ipv4Addr(10, 1, 0, 0)}
\* 2001:db8::, 2001:db8::1
V6Addrs == {Ipv6Addr(<<8193, 3512, 0, 0, 0, 0, 0, 0>>),
            Ipv6Addr(<<8193, 3512, 0, 0, 0, 0, 0, 1>>)}
V4Prefixes == 0 .. (IPV4_BITS + MaxPrefixExcess)
V6Prefixes ==
    {0, 1, IPV6_BITS - 1} \cup (IPV6_BITS .. (IPV6_BITS + MaxPrefixExcess))
        \cup {p \in 2 .. (IPV6_BITS - 2) : p % V6PrefixStride = 32 % V6PrefixStride}

ZeroV4 == Cidr("V4", Ipv4Addr(0, 0, 0, 0), 0)
ZeroV6 == Cidr("V6", Ipv6Addr(<<0, 0, 0, 0, 0, 0, 0, 0>>), 0)

V4Texts == {Cidr("V4", a, p) : a \in V4Addrs, p \in V4Prefixes}
               \cup {Bare("V4", a) : a \in V4Addrs} \cup {ZeroV4}
V6Texts == {Cidr("V6", a, p) : a \in V6Addrs, p \in V6Prefixes}
               \cup {Bare("V6", a) : a \in V6Addrs} \cup {ZeroV6}
\* the texts a pair of operands is drawn from
PairTexts == V4Texts \cup V6Texts \cup {NullText, JunkText}

\* the texts of the columns of a stepwise call:
\* null, "not-an-ip", 10.0.0.0/8, 10.1.0.0/16, 2001:db8::/32
StepTexts == {NullText, JunkText,
              Cidr("V4", Ipv4Addr(10, 0, 0, 0), 8),
              Cidr("V4", Ipv4Addr(10, 1, 0, 0), 16),
              Cidr("V6", Ipv6Addr(<<8193, 3512, 0, 0, 0, 0, 0, 0>>), 32)}
ColumnsOfLen(n) == [1 .. n -> StepTexts]
Columns == UNION {ColumnsOfLen(n) : n \in 0 .. MaxRows}
\* the arity check reads only the number of series, so the calls with a
\* wrong number of series carry short columns
ShortColumns == UNION {ColumnsOfLen(n) : n \in 0 .. 1}
CallInputs ==
    [1 .. 2 -> Columns]
        \cup UNION {[1 .. n -> ShortColumns] : n \in (0 .. MaxInputs) \ {2}}
Ops == {"contains", "subnet_of"}

(***************************************************************************)
(* One call of an expression, step by step.                                *)
(***************************************************************************)
Init ==
    /\ pc = "idle"
    /\ op = "contains"
    /\ inputs = <<>>
    /\ needle = NoArg
    /\ builder = <<>>
    /\ idx = 0
    /\ ret = NoResult
    /\ va = NullText /\ vb = NullText /\ vmode = "literal"
    /\ ppc = "off" /\ rc = NoResult /\ rs = NoResult

\* the engine calls cidr_contains or cidr_subnet_of with some series
Invoke ==
    /\ pc = "idle"
    /\ \E o \in Ops, ins \in CallInputs :
          /\ op' = o
          /\ inputs' = ins
    /\ pc' = "arity"
    /\ needle' = NoArg /\ builder' = <<>> /\ idx' = 0 /\ ret' = NoResult
    /\ UNCHANGED pairVars

\* polars_ensure!(inputs.len() == 2, ...)
CheckArity ==
    /\ pc = "arity"
    /\ IF Len(inputs) # 2
       THEN pc' = "failed" /\ ret' = ErrResult("arity")
       ELSE pc' = "resolve" /\ ret' = ret
    /\ UNCHANGED <<op, inputs, needle, builder, idx>>
    /\ UNCHANGED pairVars

\* let needle = resolve_network_argument(&inputs[1], .., len)?; then the
\* builder is created
Resolve ==
    /\ pc = "resolve"
    /\ LET r == resolve_network_argument(inputs[2], Len(inputs[1]))
       IN IF r.err # "ok"
          THEN pc' = "failed" /\ ret' = ErrResult(r.err) /\ needle' = needle
          ELSE pc' = "rows" /\ ret' = ret /\ needle' = r.arg
    /\ builder' = <<>>
    /\ idx' = 0
    /\ UNCHANGED <<op, inputs>>
    /\ UNCHANGED pairVars

\* the loop putting each outcome in front of the earlier ones
AppendRow_prepend ==
    /\ pc = "rows"
    /\ idx < Len(inputs[1])
    /\ builder' = <<RowOutcome(op, inputs[1][idx + 1], value_at(needle, idx))>> \o builder
    /\ idx' = idx + 1
    /\ UNCHANGED <<pc, op, inputs, needle, ret>>
    /\ UNCHANGED pairVars

\* one iteration of the loop over series.into_iter().enumerate()
AppendRow ==
    /\ pc = "rows"
    /\ idx < Len(inputs[1])
    /\ builder' = Append(builder, RowOutcome(op, inputs[1][idx + 1], value_at(needle, idx)))
    /\ idx' = idx + 1
    /\ UNCHANGED <<pc, op, inputs, needle, ret>>
    /\ UNCHANGED pairVars

\* Ok(builder.finish().into_series())
Finish ==
    /\ pc = "rows"
    /\ idx = Len(inputs[1])
    /\ ret' = OkSeries(builder)
    /\ pc' = "done"
    /\ UNCHANGED <<op, inputs, needle, builder, idx>>
    /\ UNCHANGED pairVars

\* the call has returned; nothing persists to the next one
Return ==
    /\ pc \in {"done", "failed"}
    /\ pc' = "idle"
    /\ op' = "contains" /\ inputs' = <<>> /\ needle' = NoArg
    /\ builder' = <<>> /\ idx' = 0 /\ ret' = NoResult
    /\ UNCHANGED pairVars

Next == Invoke \/ CheckArity \/ Resolve \/ AppendRow \/ Finish \/ Return

Spec == Init /\ [][Next]_vars

(***************************************************************************)
(* The two expressions applied to a pair of operands a, b: cidr_contains   *)
(* with row value a and argument b, cidr_subnet_of with row value b and    *)
(* argument a.  As a literal the argument is a one-entry column; per row   *)
(* the columns are <<a, b>> and <<b, a>>, so the second row holds the      *)
(* operands swapped.                                                       *)
(***************************************************************************)
ValueColumn(a, b, m) == IF m = "literal" THEN <<a>> ELSE <<a, b>>
ArgColumn(a, b, m) == IF m = "literal" THEN <<b>> ELSE <<b, a>>

InitPair ==
    /\ pc = "idle"
    /\ op = "contains"
    /\ inputs = <<>>
    /\ needle = NoArg
    /\ builder = <<>>
    /\ idx = 0
    /\ ret = NoResult
    /\ va \in PairTexts
    /\ vb \in PairTexts
    /\ vmode \in {"literal", "perrow"}
    /\ ppc = "start"
    /\ rc = NoResult
    /\ rs = NoResult

ApplyContains ==
    /\ ppc = "start"
    /\ rc' = cidr_contains(<<ValueColumn(va, vb, vmode), ArgColumn(va, vb, vmode)>>)
    /\ ppc' = "contains"
    /\ UNCHANGED <<va, vb, vmode, rs>>
    /\ UNCHANGED callVars

ApplySubnetOf ==
    /\ ppc = "contains"
    /\ rs' = cidr_subnet_of(<<ValueColumn(vb, va, vmode), ArgColumn(vb, va, vmode)>>)
    /\ ppc' = "both"
    /\ UNCHANGED <<va, vb, vmode, rc>>
    /\ UNCHANGED callVars

NextPair == ApplyContains \/ ApplySubnetOf

SpecPair == InitPair /\ [][NextPair]_vars

(***************************************************************************)
(* Vocabulary of the properties.                                           *)
(***************************************************************************)
\* the operands of the pair, parsed
NA == parse_optional_network(va)
NB == parse_optional_network(vb)
BothParse == IsSome(NA) /\ IsSome(NB)
SameFamily == NA.fam = NB.fam
ContainsApplied == ppc \in {"contains", "both"}
BothApplied == ppc = "both"

\* the bits of x at the p highest positions of a w-bit value
HighBits(x, p, w) == {i \in x : i >= w - p}
\* address x lies in the block of network n: it shares n's first n.prefix bits
InBlock(x, n) ==
    HighBits(x, n.prefix, Width(n.fam)) = HighBits(n.addr, n.prefix, Width(n.fam))
\* network t is contained within network s: one family, s no more specific
\* than t, and t's addresses share the first s.prefix bits of s
Within(t, s) ==
    /\ t.fam = s.fam
    /\ s.prefix <= t.prefix
    /\ HighBits(t.addr, s.prefix, Width(s.fam)) = HighBits(s.addr, s.prefix, Width(s.fam))

T_10_0_0_0_16 == Cidr("V4", Ipv4Addr(10, 0, 0, 0), 16)
T_10_0_0_0_24 == Cidr("V4", Ipv4Addr(10, 0, 0, 0), 24)
T_10_0_0_5_24 == Cidr("V4", Ipv4Addr(10, 0, 0, 5), 24)

(***************************************************************************)
(* C1                                                                      *)
(***************************************************************************)
\* C1 as stated: at every row where the row value and the resolved argument
\* parse, cidr_contains is true exactly when the ROW's network is contained
\* within the ARGUMENT's network; contains("10.0.0.0/24", "10.0.0.0/16") is
\* true and contains("10.0.0.0/16", "10.0.0.0/24") is false.
C1_AsStated ==
    (ContainsApplied /\ BothParse) =>
        /\ rc.err = "ok"
        /\ rc.column[1] = BoolOutcome(Within(NA, NB))
        /\ (va = T_10_0_0_0_24 /\ vb = T_10_0_0_0_16) => rc.column[1] = "true"
        /\ (va = T_10_0_0_0_16 /\ vb = T_10_0_0_0_24) => rc.column[1] = "false"

\* C1 amended: at every row where the row value and the resolved argument
\* parse, cidr_contains is true exactly when the ARGUMENT's network is
\* contained within the ROW's network (the row value is the supernet);
\* contains("10.0.0.0/24", "10.0.0.0/16") is false and
\* contains("10.0.0.0/16", "10.0.0.0/24") is true.  Literal and per-row
\* arguments alike (per row, the second row holds the operands swapped).
C1_ArgumentWithinRow ==
    (ContainsApplied /\ BothParse) =>
        /\ rc.err = "ok"
        /\ rc.column[1] = BoolOutcome(Within(NB, NA))
        /\ vmode = "perrow" => rc.column[2] = BoolOutcome(Within(NA, NB))
        /\ (va = T_10_0_0_0_24 /\ vb = T_10_0_0_0_16) => rc.column[1] = "false"
        /\ (va = T_10_0_0_0_16 /\ vb = T_10_0_0_0_24) => rc.column[1] = "true"

C1_Witness ==
    /\ ContainsApplied
    /\ va = T_10_0_0_0_16 /\ vb = T_10_0_0_0_24
    /\ vmode = "perrow"
    /\ rc.column = <<"true", "false">>

(***************************************************************************)
(* C2                                                                      *)
(***************************************************************************)
\* C2 as stated: for every valid IPv4 X, contains(X, "0.0.0.0/0") is true,
\* and for every valid IPv6 Y, contains(Y, "::/0") is true (row value X or Y,
\* literal argument the zero-prefix network).
C2_AsStated ==
    (ContainsApplied /\ vmode = "literal" /\ IsSome(NA)) =>
        /\ (NA.fam = "V4" /\ vb = ZeroV4) => (rc.err = "ok" /\ rc.column[1] = "true")
        /\ (NA.fam = "V6" /\ vb = ZeroV6) => (rc.err = "ok" /\ rc.column[1] = "true")

\* C2 amended: for every valid IPv4 X, contains("0.0.0.0/0", X) is true, and
\* for every valid IPv6 Y, contains("::/0", Y) is true (row value the
\* zero-prefix network of the family, literal argument X or Y).
C2_ZeroPrefixRowContainsAll ==
    (ContainsApplied /\ vmode = "literal" /\ IsSome(NB)) =>
        /\ (NB.fam = "V4" /\ va = ZeroV4) => (rc.err = "ok" /\ rc.column[1] = "true")
        /\ (NB.fam = "V6" /\ va = ZeroV6) => (rc.err = "ok" /\ rc.column[1] = "true")

C2_Witness ==
    /\ ContainsApplied /\ vmode = "literal"
    /\ va = ZeroV4
    /\ vb = Bare("V4", Ipv4Addr(10, 0, 0, 5))
    /\ rc.column = <<"true">>

(***************************************************************************)
(* C3                                                                      *)
(***************************************************************************)
\* C3: for well-formed networks A, B of one family, the outcome of subnet_of
\* with row value A and argument B equals the outcome of contains with row
\* value B and argument A, with a literal argument and with per-row
\* arguments.  (Here A = vb, B = va; per row, the second rows are the same
\* statement with A = va, B = vb.)
C3_Duality ==
    (BothApplied /\ BothParse /\ SameFamily) =>
        /\ rs.err = "ok" /\ rc.err = "ok"
        /\ rs.column[1] = rc.column[1]
        /\ vmode = "perrow" => rs.column[2] = rc.column[2]

C3_Witness ==
    /\ BothApplied /\ vmode = "perrow"
    /\ va = T_10_0_0_0_16 /\ vb = T_10_0_0_5_24
    /\ rs.column = <<"true", "false">>
    /\ rc.column = <<"true", "false">>

(***************************************************************************)
(* C4                                                                      *)
(***************************************************************************)
\* C4: for every valid network N of either family, of every prefix length
\* (0 and the full width included) and with or without host bits in its
\* text, contains(N, N) is true.
C4_Reflexive ==
    (ContainsApplied /\ va = vb /\ IsSome(NA)) =>
        /\ rc.err = "ok"
        /\ \A i \in DOMAIN rc.column : rc.column[i] = "true"

C4_Witness ==
    /\ ContainsApplied
    /\ va = T_10_0_0_5_24 /\ vb = T_10_0_0_5_24
    /\ vmode = "literal"
    /\ rc.column = <<"true">>

(***************************************************************************)
(* C9                                                                      *)
(***************************************************************************)
\* the mask of the primitive: exactly p high-order bits of w set
PrimitiveMask(p, w) == {i \in 0 .. (w - 1) : i >= w - p}
\* the primitive P(supernet, subnet)
Primitive(supernet, subnet) ==
    IF supernet.fam # subnet.fam
    THEN FALSE
    ELSE IF supernet.prefix > subnet.prefix
         THEN FALSE
         ELSE Network(supernet)
                  = (Network(subnet) \cap PrimitiveMask(supernet.prefix, Width(supernet.fam)))

\* C9: at every row where both operands are present, cidr_contains returns
\* P(row, argument) and cidr_subnet_of returns P(argument, row); operands of
\* different families give false, not null; and no shift amount used for a
\* mask reaches the bit width.  (cidr_contains has row va and argument vb,
\* cidr_subnet_of has row vb and argument va.)
C9_Primitive ==
    (BothApplied /\ BothParse) =>
        /\ rc.err = "ok" /\ rs.err = "ok"
        /\ rc.column[1] = BoolOutcome(Primitive(NA, NB))
        /\ rs.column[1] = BoolOutcome(Primitive(NA, NB))
        /\ vmode = "perrow" =>
              /\ rc.column[2] = BoolOutcome(Primitive(NB, NA))
              /\ rs.column[2] = BoolOutcome(Primitive(NB, NA))
        /\ ~SameFamily => (rc.column[1] = "false" /\ rs.column[1] = "false")
        /\ \A k \in MaskShifts(NA, NB) \cup MaskShifts(NB, NA) :
              ~ShiftOverflows(k, Width(NA.fam))

C9_Witness ==
    /\ BothApplied /\ vmode = "literal"
    /\ va = Cidr("V6", Ipv6Addr(<<8193, 3512, 0, 0, 0, 0, 0, 0>>), 32)
    /\ vb = Bare("V6", Ipv6Addr(<<8193, 3512, 0, 0, 0, 0, 0, 1>>))
    /\ rc.column = <<"true">> /\ rs.column = <<"true">>

(***************************************************************************)
(* C10                                                                     *)
(***************************************************************************)
\* addresses of the block of n: n's address as typed, the first and the last
\* address of the block, and the first address with one host bit set
HostBits(n) == 0 .. (Width(n.fam) - n.prefix - 1)
BlockBase(n) == HighBits(n.addr, n.prefix, Width(n.fam))
BlockProbes(n) ==
    {n.addr, BlockBase(n), BlockBase(n) \cup HostBits(n)}
        \cup {BlockBase(n) \cup {k} : k \in HostBits(n)}
\* n with other host bits typed
HostVariants(n) ==
    {[n EXCEPT !.addr = BlockBase(n)], [n EXCEPT !.addr = BlockBase(n) \cup HostBits(n)], n}

\* C10: for two networks S, T of one family, network_contains(S, T) (the
\* outcome of cidr_contains with row S and argument T) is true iff every
\* address of T's block lies in S's block, and the outcome does not change
\* when only the host bits of S or T change.
C10_BlockInclusion ==
    (ContainsApplied /\ BothParse /\ SameFamily) =>
        /\ rc.err = "ok"
        /\ (rc.column[1] = "true") <=>
              (\A x \in BlockProbes(NB) : InBlock(x, NB) => InBlock(x, NA))
        /\ \A s \in HostVariants(NA), t \in HostVariants(NB) :
              rc.column[1] = BoolOutcome(network_contains(s, t))

C10_Witness ==
    /\ ContainsApplied /\ vmode = "literal"
    /\ va = Cidr("V6", Ipv6Addr(<<8193, 3512, 0, 0, 0, 0, 0, 1>>), 32)
    /\ vb = Cidr("V6", Ipv6Addr(<<8193, 3512, 0, 0, 0, 0, 0, 1>>), 127)
    /\ rc.column = <<"true">>

(***************************************************************************)
(* Properties of a stepwise call.                                          *)
(***************************************************************************)
\* a text that is null or is not the text of a network
Unparsable(t) ==
    \/ t.kind \in {"null", "junk"}
    \/ t.kind = "cidr" /\ t.prefix > Width(t.fam)
TwoColumns == pc # "idle" /\ Len(inputs) = 2
Rows == IF Len(inputs) >= 1 THEN DOMAIN inputs[1] ELSE {}
Returned == pc \in {"done", "failed"}
ValidLiteral == TwoColumns /\ Len(inputs[2]) = 1 /\ ~Unparsable(inputs[2][1])

(***************************************************************************)
(* C5                                                                      *)
(***************************************************************************)
\* C5: with a valid literal argument, in contains and in subnet_of, the call
\* does not fail, a row whose value is null or does not parse has a null
\* outcome, and every row whose value parses has a boolean outcome.
C5_NullRows ==
    (Returned /\ ValidLiteral) =>
        /\ pc = "done" /\ ret.err = "ok"
        /\ DOMAIN ret.column = Rows
        /\ \A i \in Rows :
              IF Unparsable(inputs[1][i])
              THEN ret.column[i] = "null"
              ELSE ret.column[i] \in {"true", "false"}

C5_Witness ==
    /\ pc = "done" /\ ValidLiteral /\ op = "subnet_of"
    /\ Len(inputs[1]) = 2
    /\ inputs[1][1] = JunkText
    /\ ret.column = <<"null", "true">>

(***************************************************************************)
(* C6                                                                      *)
(***************************************************************************)
\* the argument is given per row: a column as long as the input column
PerRowGiven == TwoColumns /\ Len(inputs[2]) = Len(inputs[1])
NullOnlyWhereAbsent ==
    /\ pc = "done" /\ ret.err = "ok"
    /\ DOMAIN ret.column = Rows
    /\ \A i \in Rows :
          IF Unparsable(inputs[2][i]) \/ Unparsable(inputs[1][i])
          THEN ret.column[i] = "null"
          ELSE ret.column[i] \in {"true", "false"}

\* C6 as stated: for an input column of any row count n and an argument
\* column of length n, a null or unparsable argument entry gives a null
\* outcome at that row only and never aborts the call.
C6_AsStated == (Returned /\ PerRowGiven) => NullOnlyWhereAbsent

\* C6 amended: for an input column of any row count n other than 1 and an
\* argument column of length n, a null or unparsable argument entry gives a
\* null outcome at that row only and never aborts the call.
C6_PerRowRecovered ==
    (Returned /\ PerRowGiven /\ Len(inputs[1]) # 1) => NullOnlyWhereAbsent

C6_Witness ==
    /\ pc = "done" /\ PerRowGiven /\ Len(inputs[1]) = 2 /\ op = "contains"
    /\ inputs[2][1] = JunkText /\ inputs[2][2] = inputs[1][2]
    /\ ret.column = <<"null", "true">>

(***************************************************************************)
(* C7                                                                      *)
(***************************************************************************)
Resolved == TwoColumns /\ pc \in {"rows", "done", "failed"}

\* C7: given two text columns, resolution fails exactly when the argument
\* has one entry that is null or does not parse (invalid literal) or when
\* its length is neither 1 nor the input row count (length mismatch); a
\* valid one-entry argument resolves to a literal, an argument as long as
\* the input column (and not of length 1) to a per-row sequence of that
\* length.
C7_Resolution ==
    Resolved =>
        LET arg == inputs[2]
            n == Len(inputs[1])
        IN CASE Len(arg) = 1 /\ Unparsable(arg[1]) ->
                   /\ pc = "failed"
                   /\ ret.err = (IF arg[1].kind = "null" THEN "null_literal"
                                                          ELSE "invalid_literal")
             [] Len(arg) = 1 /\ ~Unparsable(arg[1]) ->
                   /\ pc # "failed"
                   /\ needle.mode = "Literal"
                   /\ needle.network = [fam |-> arg[1].fam, addr |-> arg[1].addr,
                                        prefix |-> arg[1].prefix]
             [] Len(arg) # 1 /\ Len(arg) # n ->
                   /\ pc = "failed"
                   /\ ret.err = "length_mismatch"
             [] OTHER ->
                   /\ pc # "failed"
                   /\ needle.mode = "Series"
                   /\ Len(needle.values) = n

C7_Witness ==
    /\ pc = "rows" /\ TwoColumns
    /\ Len(inputs[1]) = 1 /\ Len(inputs[2]) = 1
    /\ needle.mode = "Literal"

(***************************************************************************)
(* C8                                                                      *)
(***************************************************************************)
\* the resolved argument at row i, read off the argument column
ArgumentAt(i) ==
    IF Len(inputs[2]) = 1
    THEN parse_optional_network(inputs[2][1])
    ELSE parse_optional_network(inputs[2][i])
\* outcome i is the one of row value i and of the argument at i
OutcomeOfRow(col, i) ==
    col[i] = (IF ~IsSome(parse_optional_network(inputs[1][i])) \/ ~IsSome(ArgumentAt(i))
              THEN "null"
              ELSE IF op = "contains"
                   THEN BoolOutcome(network_contains(
                            parse_optional_network(inputs[1][i]), ArgumentAt(i)))
                   ELSE BoolOutcome(network_contains(
                            ArgumentAt(i), parse_optional_network(inputs[1][i]))))

\* C8: in both operations no row outcome exists before the arity check and
\* the argument resolution have passed; a failing call (wrong arity, invalid
\* literal, length mismatch) has no row outcome at all; a successful call
\* returns one outcome per input row, in row order, the outcome at row i
\* being the one of the input value at i and the resolved argument at i.
C8_AllOrNothing ==
    /\ pc \in {"idle", "arity", "resolve", "failed"} => builder = <<>>
    /\ pc = "failed" =>
          /\ ret.err \in {"arity", "null_literal", "invalid_literal", "length_mismatch"}
          /\ ret.column = <<>>
          /\ \/ Len(inputs) # 2
             \/ Len(inputs[2]) = 1 /\ Unparsable(inputs[2][1])
             \/ Len(inputs[2]) \notin {1, Len(inputs[1])}
    /\ pc = "rows" =>
          /\ Len(inputs) = 2 /\ ret = NoResult
          /\ Len(builder) = idx /\ idx <= Len(inputs[1])
          /\ \A i \in DOMAIN builder : OutcomeOfRow(builder, i)
    /\ pc = "done" =>
          /\ ret.err = "ok"
          /\ Len(ret.column) = Len(inputs[1])
          /\ \A i \in DOMAIN ret.column : OutcomeOfRow(ret.column, i)

C8_Witness ==
    /\ pc = "done" /\ op = "contains"
    /\ Len(inputs[2]) = 1
    /\ ret.column = <<"true", "false">>

====
